---- MODULE Spec2Model ----
(***************************************************************************)
(* A model of StatusBarFileSize.py: the size formatter file_size_str, the  *)
(* chunk generator ranges, the buffer size estimator estimate_file_size    *)
(* and the debounced event handling of the StatusBarFileSize listener.     *)
(*                                                                         *)
(* Texts (status strings, unit labels) are sequences of one-character      *)
(* strings.  Python ints of arbitrary size are sequences of digits in base *)
(* 1024, least significant first, without high zero digits (<<0>> is 0).   *)
(* Python floats are IEEE doubles [m, e]: a mantissa m of 53 bits (lowest  *)
(* first) and an exponent e, of value m * 2^e.  None is the empty          *)
(* sequence, which is neither a text the program builds nor an int.        *)
(***************************************************************************)
EXTENDS Integers, Sequences, FiniteSets, TLC

None == <<>>

Max(a, b) == IF a >= b THEN a ELSE b
Min(a, b) == IF a <= b THEN a ELSE b

(***************************************************************************)
(* Python ints: digits in base 1024, least significant first.              *)
(***************************************************************************)
Limb == 1024
LimbBits == 10

RECURSIVE NatToBig(_)
NatToBig(n) == IF n < Limb THEN <<n>> ELSE <<n % Limb>> \o NatToBig(n \div Limb)

\* The value of an int below 2^30 (at most three digits).
RECURSIVE BigToNat(_)
BigToNat(b) == IF b = <<>> THEN 0 ELSE Head(b) + Limb * BigToNat(Tail(b))

RECURSIVE Normalize(_)
Normalize(b) ==
    IF Len(b) <= 1 \/ b[Len(b)] # 0 THEN b ELSE Normalize(SubSeq(b, 1, Len(b) - 1))

Zeros(k) == [i \in 1..k |-> 0]

\* b * m + carry for m <= 1024.
RECURSIVE MulSmall(_, _, _)
MulSmall(b, m, carry) ==
    IF b = <<>> THEN (IF carry = 0 THEN <<>> ELSE NatToBig(carry))
    ELSE LET t == Head(b) * m + carry
         IN  <<t % Limb>> \o MulSmall(Tail(b), m, t \div Limb)

\* b - c for b >= c, the borrow carried upwards.
RECURSIVE SubDigits(_, _, _)
SubDigits(b, c, borrow) ==
    IF b = <<>> THEN <<>>
    ELSE LET ci == IF c = <<>> THEN 0 ELSE Head(c)
             t  == Head(b) - ci - borrow
         IN  <<t % Limb>> \o SubDigits(Tail(b), IF c = <<>> THEN <<>> ELSE Tail(c),
                                      IF t < 0 THEN 1 ELSE 0)

BigSub(b, c) == Normalize(SubDigits(b, c, 0))

RECURSIVE BigPow(_, _)
BigPow(d, k) == IF k = 0 THEN <<1>> ELSE MulSmall(BigPow(d, k - 1), d, 0)

\* a < b: the longer int is the larger, and of two of one length the one with
\* the larger highest differing digit.
BigLess(a, b) ==
    \/ Len(a) < Len(b)
    \/ /\ Len(a) = Len(b)
       /\ \E i \in 1..Len(a) :
            /\ a[i] < b[i]
            /\ \A j \in (i + 1)..Len(a) : a[j] = b[j]

\* Quotient and remainder of b by d <= 1024, b = 1024 * Tail(b) + Head(b).
RECURSIVE DivSmall(_, _)
DivSmall(b, d) ==
    IF b = <<>> THEN [q |-> <<>>, r |-> 0]
    ELSE LET hi == DivSmall(Tail(b), d)
             t  == Limb * hi.r + Head(b)
         IN  [q |-> <<t \div d>> \o hi.q, r |-> t % d]

RECURSIVE Pow2(_)
Pow2(k) == IF k = 0 THEN 1 ELSE 2 * Pow2(k - 1)

\* The number of bits of a digit below 1024, the i-th bit (from 1, the lowest)
\* of an int and the number of bits of an int.
RECURSIVE DigitLen(_)
DigitLen(x) == IF x = 0 THEN 0 ELSE 1 + DigitLen(x \div 2)
Bit(b, i) == (b[((i - 1) \div LimbBits) + 1] \div Pow2((i - 1) % LimbBits)) % 2
BitLen(b) == LimbBits * (Len(b) - 1) + DigitLen(b[Len(b)])

\* The int whose bits a bit sequence (lowest first) lists.
RECURSIVE BitsValue(_)
BitsValue(bits) == IF bits = <<>> THEN 0 ELSE Head(bits) + 2 * BitsValue(Tail(bits))
BitsToBig(bits) ==
    [j \in 1..((Len(bits) + LimbBits - 1) \div LimbBits) |->
        BitsValue(SubSeq(bits, LimbBits * (j - 1) + 1, Min(LimbBits * j, Len(bits))))]

(***************************************************************************)
(* Python floats: IEEE doubles.                                            *)
(***************************************************************************)
MantBits == 53

\* m + 1 for a mantissa m; 2^53 is 2^52 with the exponent raised.
MantInc(m, e) ==
    IF \A i \in 1..MantBits : m[i] = 1
    THEN [m |-> [i \in 1..MantBits |-> IF i = MantBits THEN 1 ELSE 0], e |-> e + 1]
    ELSE LET j == CHOOSE k \in 1..MantBits :
                    m[k] = 0 /\ \A i \in 1..(k - 1) : m[i] = 1
         IN  [m |-> [i \in 1..MantBits |->
                        IF i < j THEN 0 ELSE IF i = j THEN 1 ELSE m[i]],
              e |-> e]

\* The double nearest to (a * 2^ea) / d, ties to even, for an int a > 0: a is
\* shifted left until the quotient has its 53 bits, a round bit and more, and
\* the bits dropped and the remainder decide the rounding.
RoundDiv(a, ea, d) ==
    LET s    == Max(0, 8 - Len(a))
        dv   == DivSmall(Zeros(s) \o a, d)
        q    == Normalize(dv.q)
        drop == BitLen(q) - MantBits
        kept == [i \in 1..MantBits |-> Bit(q, drop + i)]
        sticky == dv.r # 0 \/ \E i \in 1..(drop - 1) : Bit(q, i) = 1
        up   == Bit(q, drop) = 1 /\ (sticky \/ kept[1] = 1)
        e    == drop - LimbBits * s + ea
    IN  IF up THEN MantInc(kept, e) ELSE [m |-> kept, e |-> e]

\* The integer part of a double x >= 0 below 2^30 and the bits of its fraction
\* (the last one weighs 1/2).
IntBits(x) == MantBits + x.e
IntPart(x) == IF IntBits(x) <= 0 THEN 0
              ELSE BitsValue(SubSeq(x.m, 1 - x.e, MantBits))
FracPart(x) == IF x.e >= 0 THEN <<>>
               ELSE IF IntBits(x) <= 0 THEN x.m \o Zeros(0 - IntBits(x))
               ELSE SubSeq(x.m, 1, 0 - x.e)

\* x < d for a double x and a small int d.
FloatLess(x, d) == IF IntBits(x) > 30 THEN FALSE ELSE IntPart(x) < d

FracIsZero(f) == \A i \in 1..Len(f) : f[i] = 0

\* The fraction f against 1/2: -1 below, 0 equal, 1 above.
FracCmpHalf(f) ==
    IF f = <<>> \/ f[Len(f)] = 0 THEN -1
    ELSE IF \E i \in 1..(Len(f) - 1) : f[i] = 1 THEN 1 ELSE 0

\* 10 * f for a fraction f: the integer part (a digit) and the fraction left.
TimesTen(f) ==
    LET t == MulSmall(BitsToBig(f \o <<0, 0, 0, 0>>), 10, 0)
    IN  [int  |-> BitsValue([i \in 1..4 |-> Bit(t, Len(f) + i)]),
         frac |-> [i \in 1..Len(f) |-> Bit(t, i)]]

(***************************************************************************)
(* Texts.                                                                  *)
(***************************************************************************)
DigitChars == <<"0", "1", "2", "3", "4", "5", "6", "7", "8", "9">>

\* str(n) of an int n >= 0.
RECURSIVE NatToStr(_)
NatToStr(n) ==
    IF n < 10 THEN <<DigitChars[n + 1]>>
    ELSE NatToStr(n \div 10) \o <<DigitChars[(n % 10) + 1]>>

RECURSIVE Pow10(_)
Pow10(k) == IF k = 0 THEN 1 ELSE 10 * Pow10(k - 1)

NumDigits(n) == Len(NatToStr(n))

\* The two significant decimal digits of a double x >= 1 (lead, in 10..99) and
\* the decimal exponent x10 of the first of them, the exact binary value being
\* rounded to nearest, ties to even, as float.__format__ does.
Sig2(x) ==
    LET I   == IntPart(x)
        f   == FracPart(x)
        L   == NumDigits(I)
        t   == TimesTen(f)
        p   == Pow10(L - 2)
        raw == IF L = 1 THEN 10 * I + t.int
               ELSE IF L = 2 THEN I
               ELSE I \div p
        cmp == IF L = 1 THEN FracCmpHalf(t.frac)
               ELSE IF L = 2 THEN FracCmpHalf(f)
               ELSE IF (I % p) > (p \div 2) THEN 1
               ELSE IF (I % p) < (p \div 2) THEN -1
               ELSE IF FracIsZero(f) THEN 0 ELSE 1
        up  == cmp = 1 \/ (cmp = 0 /\ raw % 2 = 1)
        rnd == IF up THEN raw + 1 ELSE raw
    IN  IF rnd = 100 THEN [lead |-> 10, x10 |-> L]
        ELSE [lead |-> rnd, x10 |-> L - 1]

\* "{:.2}".format(x): no type code and a precision of 2, that is two
\* significant digits, in fixed notation ("1.0", "9.9") below 10 and in
\* exponent notation ("1e+01", "1.5e+01", "1e+03") from 10 on.
FormatPrec2(x) ==
    LET s  == Sig2(x)
        d1 == DigitChars[(s.lead \div 10) + 1]
        d2 == DigitChars[(s.lead % 10) + 1]
    IN  IF s.x10 = 0 THEN <<d1, ".", d2>>
        ELSE (IF s.lead % 10 = 0 THEN <<d1>> ELSE <<d1, ".", d2>>)
             \o <<"e", "+">>
             \o (IF s.x10 < 10 THEN <<"0">> ELSE <<>>) \o NatToStr(s.x10)

(***************************************************************************)
(* file_size_str                                                           *)
(***************************************************************************)
Divisor(units) == IF units = "binary" THEN 1024 ELSE 1000

BinaryMiddle(units) == IF units = "binary" THEN <<"i">> ELSE <<>>

Sizes == <<"K", "M", "G", "T", "P", "E", "Z", "Y">>

\* size < divisor, for an int size.
IntLess(size, d) == Len(size) <= 2 /\ BigToNat(size) < d

\* "{} {}".format(size, "Bytes" if size != 1 else "Byte")
BytesStr(n) ==
    NatToStr(n) \o (IF n # 1 THEN <<" ", "B", "y", "t", "e", "s">>
                    ELSE <<" ", "B", "y", "t", "e">>)

\* size_val /= divisor: the first division is int / int, the later ones are
\* float / int; both are correctly rounded.
DivideVal(val, d) ==
    IF val.int THEN RoundDiv(val.v, 0, d)
    ELSE RoundDiv(BitsToBig(val.v.m), val.v.e, d)

\* The test that leaves the loop over the units.
LoopBreaks(x, d) == FloatLess(x, d)

\* for unit in sizes: size_val /= divisor; if size_val < divisor: break
RECURSIVE UnitLoop(_, _, _)
UnitLoop(val, k, d) ==
    LET x == DivideVal(val, d)
    IN  IF LoopBreaks(x, d) \/ k = Len(Sizes) THEN [val |-> x, unit |-> k]
        ELSE UnitLoop([int |-> FALSE, v |-> x], k + 1, d)

\* "{:.2} {}{}B".format(size_val, unit, binary_middle)
ScaledStr(x, unit, units) ==
    FormatPrec2(x) \o <<" ", Sizes[unit]>> \o BinaryMiddle(units) \o <<"B">>

file_size_str(size, units) ==
    IF size = None THEN None
    ELSE IF IntLess(size, Divisor(units)) THEN BytesStr(BigToNat(size))
    ELSE LET r == UnitLoop([int |-> TRUE, v |-> size], 1, Divisor(units))
         IN  ScaledStr(r.val, r.unit, units)

(***************************************************************************)
(* Encodings and line endings.  A character is a one-character string; the *)
(* character U+00E9 is written "U+00E9".                                   *)
(***************************************************************************)
SPECIAL_HEXADECIMAL == "special-hexadecimal"

ENCODING_MAP ==
    [name \in {"Undefined", "Hexadecimal", "UTF-8", "UTF-16 LE", "UTF-16 BE",
               "Western (Windows 1252)", "Western (ISO 8859-1)",
               "Western (ISO 8859-3)", "Western (ISO 8859-15)",
               "Western (Mac Roman)", "DOS (CP 437)", "Arabic (Windows 1256)",
               "Arabic (ISO 8859-6)", "Baltic (Windows 1257)",
               "Baltic (ISO 8859-4)", "Celtic (ISO 8859-14)",
               "Central European (Windows 1250)",
               "Central European (ISO 8859-2)", "Cyrillic (Windows 1251)",
               "Cyrillic (Windows 866)", "Cyrillic (ISO 8859-5)",
               "Cyrillic (KOI8-R)", "Cyrillic (KOI8-U)",
               "Estonian (ISO 8859-13)", "Greek (Windows 1253)",
               "Greek (ISO 8859-7)", "Hebrew (Windows 1255)",
               "Hebrew (ISO 8859-8)", "Nordic (ISO 8859-10)",
               "Romanian (ISO 8859-16)", "Turkish (Windows 1254)",
               "Turkish (ISO 8859-9)", "Vietnamese (Windows 1258)"} |->
        CASE name = "Undefined" -> "utf-8"
          [] name = "Hexadecimal" -> SPECIAL_HEXADECIMAL
          [] name = "UTF-8" -> "utf-8"
          [] name = "UTF-16 LE" -> "utf-16le"
          [] name = "UTF-16 BE" -> "utf-16be"
          [] name = "Western (Windows 1252)" -> "windows-1252"
          [] name = "Western (ISO 8859-1)" -> "iso-8859-1"
          [] name = "Western (ISO 8859-3)" -> "iso-8859-3"
          [] name = "Western (ISO 8859-15)" -> "iso-8859-15"
          [] name = "Western (Mac Roman)" -> "mac_roman"
          [] name = "DOS (CP 437)" -> "cp-437"
          [] name = "Arabic (Windows 1256)" -> "windows-1256"
          [] name = "Arabic (ISO 8859-6)" -> "iso-8859-6"
          [] name = "Baltic (Windows 1257)" -> "windows-1257"
          [] name = "Baltic (ISO 8859-4)" -> "iso-8859-4"
          [] name = "Celtic (ISO 8859-14)" -> "iso-8859-14"
          [] name = "Central European (Windows 1250)" -> "windows-1250"
          [] name = "Central European (ISO 8859-2)" -> "iso-8859-2"
          [] name = "Cyrillic (Windows 1251)" -> "windows-1251"
          [] name = "Cyrillic (Windows 866)" -> "windows-866"
          [] name = "Cyrillic (ISO 8859-5)" -> "iso-8859-5"
          [] name = "Cyrillic (KOI8-R)" -> "koi8_r"
          [] name = "Cyrillic (KOI8-U)" -> "koi8_u"
          [] name = "Estonian (ISO 8859-13)" -> "iso-8859-13"
          [] name = "Greek (Windows 1253)" -> "windows-1253"
          [] name = "Greek (ISO 8859-7)" -> "iso-8859-7"
          [] name = "Hebrew (Windows 1255)" -> "windows-1255"
          [] name = "Hebrew (ISO 8859-8)" -> "iso-8859-8"
          [] name = "Nordic (ISO 8859-10)" -> "iso-8859-10"
          [] name = "Romanian (ISO 8859-16)" -> "iso-8859-16"
          [] name = "Turkish (Windows 1254)" -> "windows-1254"
          [] name = "Turkish (ISO 8859-9)" -> "iso-8859-9"
          [] name = "Vietnamese (Windows 1258)" -> "windows-1258"]

LINE_ENDINGS_MAP ==
    [name \in {"Unix", "Windows", "CR"} |->
        CASE name = "Unix" -> <<"\n">>
          [] name = "Windows" -> <<"\r", "\n">>
          [] name = "CR" -> <<"\r">>]

BLOCK_SIZE == 1000

\* str.encode(encoding) looks the codec up by name, and Python's codec registry
\* has no codec of these two names (cp437 and cp866 are the names it knows):
\* the lookup raises LookupError, which is no UnicodeError.
CodecsNotFound == {"cp-437", "windows-866"}

\* The codecs of ENCODING_MAP that have no byte for U+00E9.
CodecsWithoutE9 ==
    {"iso-8859-6", "windows-1251", "iso-8859-5", "koi8_r", "koi8_u",
     "windows-1253", "iso-8859-7", "windows-1255", "iso-8859-8"}

IsAscii(c) == c # "U+00E9"

\* Whether the codec has bytes for character c, and how many.
Encodable(codec, c) == IsAscii(c) \/ codec \notin CodecsWithoutE9
CharBytes(codec, c) ==
    IF codec \in {"utf-16le", "utf-16be"} THEN 2
    ELSE IF codec = "utf-8" /\ ~IsAscii(c) THEN 2
    ELSE 1

(***************************************************************************)
(* Texts of a buffer.  A text is a sequence of runs [s, n]: the characters *)
(* s (one character in a buffer, the line ending sequence after a          *)
(* replace) repeated n >= 1 times.                                         *)
(***************************************************************************)
RECURSIVE TextLen(_)
TextLen(t) == IF t = <<>> THEN 0 ELSE Len(Head(t).s) * Head(t).n + TextLen(Tail(t))

\* The characters [start, end) of a buffer text whose first character is at off.
RECURSIVE SliceFrom(_, _, _, _)
SliceFrom(t, off, start, end) ==
    IF t = <<>> THEN <<>>
    ELSE LET lo   == Max(off, start)
             hi   == Min(off + Head(t).n, end)
             rest == SliceFrom(Tail(t), off + Head(t).n, start, end)
         IN  IF hi > lo THEN <<[s |-> Head(t).s, n |-> hi - lo]>> \o rest
             ELSE rest

\* view.substr(sublime.Region(start, end)): a region is clipped to the buffer.
substr(text, start, end) == SliceFrom(text, 0, start, end)

\* sum(1 for x in s if x in chars)
RECURSIVE CountChars(_, _)
CountChars(t, chars) ==
    IF t = <<>> THEN 0
    ELSE Cardinality({i \in 1..Len(Head(t).s) : Head(t).s[i] \in chars}) * Head(t).n
         + CountChars(Tail(t), chars)

HexDigits ==
    {"a", "b", "c", "d", "e", "f", "A", "B", "C", "D", "E", "F",
     "0", "1", "2", "3", "4", "5", "6", "7", "8", "9"}

count_hex_digits(s) == CountChars(s, HexDigits)

\* text.replace("\n", line_endings)
Replace(t, line_endings) ==
    [i \in 1..Len(t) |->
        IF t[i].s = <<"\n">> THEN [s |-> line_endings, n |-> t[i].n] ELSE t[i]]

TextChars(t) == UNION {{t[i].s[j] : j \in 1..Len(t[i].s)} : i \in 1..Len(t)}

RECURSIVE UnitBytes(_, _)
UnitBytes(codec, s) ==
    IF s = <<>> THEN 0 ELSE CharBytes(codec, Head(s)) + UnitBytes(codec, Tail(s))

RECURSIVE EncodedLen(_, _)
EncodedLen(t, codec) ==
    IF t = <<>> THEN 0
    ELSE UnitBytes(codec, Head(t).s) * Head(t).n + EncodedLen(Tail(t), codec)

\* text.encode(encoding): the exception raised, or the number of bytes.
encode(t, codec) ==
    IF codec \in CodecsNotFound THEN [raised |-> "LookupError", len |-> 0]
    ELSE IF \E c \in TextChars(t) : ~Encodable(codec, c)
         THEN [raised |-> "UnicodeError", len |-> 0]
    ELSE [raised |-> "", len |-> EncodedLen(t, codec)]

\* len(zlib.compress(data)) for data of n bytes: 8 bytes for no data, and for
\* some data between 9 bytes and the n + 11 of a stored block (n < 65536);
\* the two ends stand for what the compressor may answer.
CompressedLens(n) == IF n = 0 THEN {8} ELSE {9, n + 11}

(***************************************************************************)
(* ranges                                                                  *)
(***************************************************************************)
\* while i < end
RangesMore(i, end) == i < end

\* A variant of the yield without the min: the last interval may pass end.
RangesYieldNoMin(i, end, bs) == <<i, i + bs>>

\* yield (i, min(i + bs, end))
RangesYield(i, end, bs) == <<i, Min(i + bs, end)>>

\* i += bs
RangesStep(i, bs) == i + bs

(***************************************************************************)
(* The state.                                                              *)
(***************************************************************************)
VARIABLES
    buffer,        \* view -> the text of the view's buffer
    change_count,  \* view -> view.change_count()
    encoding,      \* view -> view.encoding()
    line_endings,  \* view -> view.line_endings()
    file_name,     \* view -> view.file_name(): a path or None
    is_dirty,      \* view -> view.is_dirty()
    status,        \* view -> the status text under KEY_SIZE, None when erased
    files,         \* path -> the file on disk: [exists, size, readable]
    settings,      \* the plugin's settings: [deflate, estimate_file_size, units]
    call_cache,    \* StatusBarFileSize.call_cache: view -> pending calls
    timers,        \* the callbacks set by set_timeout_async, in scheduling order
    events,        \* the trigger events not handled yet, in order of arrival
    task,          \* the update_file_size call the worker thread is in
    last,          \* view -> how the last update_file_size call of the view went
    hist,          \* counters of events, callbacks and update_file_size calls
    fmt,           \* a call of file_size_str: its arguments and its result
    rg             \* a run of the generator ranges(start, end, bs)

viewVars == <<buffer, change_count, encoding, line_endings, file_name, is_dirty>>
pluginVars == <<status, call_cache, timers, events, task, last, hist>>
vars == <<buffer, change_count, encoding, line_endings, file_name, is_dirty,
          status, files, settings, call_cache, timers, events, task, last,
          hist, fmt, rg>>

ViewSet == DOMAIN buffer

\* The path a view is saved under.
PathOf(v) == <<"/", v>>

Idle == [pc |-> "idle", view |-> "", deflate |-> FALSE, tag |-> 0,
         line_endings |-> <<>>, encoding |-> "", end |-> 0, i |-> 0,
         size |-> 0, data |-> 0]

\* No update_file_size call of the view yet.
NoCall == [ended |-> "none", cause |-> "", estimate |-> FALSE,
           clean_path |-> FALSE, fs_size |-> None, size |-> None,
           deflate_size |-> None, prev |-> None, tag |-> 0, reads |-> <<>>,
           end_rev |-> 0]

NoHist(V) == [env |-> 0, scheduled |-> 0,
              handled |-> [v \in V |-> 0], fired |-> [v \in V |-> 0],
              late |-> [v \in V |-> FALSE], last_timer |-> [v \in V |-> 0],
              event_rev |-> [v \in V |-> 0],
              updates |-> [v \in V |-> 0], update_timer |-> [v \in V |-> 0],
              update_handled |-> [v \in V |-> 0], update_rev |-> [v \in V |-> 0]]

NoFmt == [pc |-> "off", size |-> None, units |-> "binary", out |-> None]
NoRg == [pc |-> "off", start |-> 0, end |-> 0, bs |-> 1, i |-> 0, out |-> <<>>]

(***************************************************************************)
(* update_file_size                                                        *)
(***************************************************************************)
\* A variant of the prefix that marks every size as an estimate.
PrefixAlways(estimate) == <<"~">>

\* "~" if estimate else ""
Prefix(estimate) == IF estimate THEN <<"~">> ELSE <<>>

\* The text update_file_size sets for a size that is not None.
StatusText(size, deflate_size, estimate, deflate, units) ==
    Prefix(estimate) \o file_size_str(size, units)
    \o (IF deflate /\ deflate_size # None /\ deflate_size # <<0>>
        THEN <<" ", "(", "g", "z", "i", "p", ":", " ">>
             \o file_size_str(deflate_size, units) \o <<")">>
        ELSE <<>>)

\* Lines 182-190: the status after update_file_size got size and deflate_size.
StatusAfter(size, deflate_size, estimate, deflate, units) ==
    IF size # None THEN StatusText(size, deflate_size, estimate, deflate, units)
    ELSE None

\* A variant of the return of line 172 that erases the status first.
StatusErased(old) == None

\* The status update_file_size leaves when ViewHasChanged is caught (the
\* return of line 172) or when an exception leaves it: the one it found.
StatusKept(old) == old

\* The else branch of update_file_size, lines 174-180: the sizes it may get
\* for the file of a path.
FileSizes(f, deflate) ==
    IF ~f.exists THEN {[cause |-> "OSError", size |-> None, deflate_size |-> None]}
    ELSE IF ~deflate
         THEN {[cause |-> "ok", size |-> NatToBig(f.size), deflate_size |-> None]}
    ELSE IF ~f.readable
         THEN {[cause |-> "OSError-open", size |-> NatToBig(f.size),
                deflate_size |-> None]}
    ELSE {[cause |-> "ok", size |-> NatToBig(f.size),
           deflate_size |-> NatToBig(z)] : z \in CompressedLens(f.size)}

\* if not path or view.is_dirty()
TakesEstimate(path, dirty) == path = None \/ dirty

\* update_file_size(view) up to the loop of estimate_file_size: what the call
\* came to ("returned"), or "scan" when the loop is still to run.
UpdateStart(v) ==
    IF TakesEstimate(file_name[v], is_dirty[v])
    THEN IF ~settings.estimate_file_size
         THEN {[ended |-> "returned", cause |-> "disabled", estimate |-> FALSE,
                size |-> None, deflate_size |-> None]}
         ELSE IF line_endings[v] \notin DOMAIN LINE_ENDINGS_MAP
                 \/ encoding[v] \notin DOMAIN ENCODING_MAP
         THEN {[ended |-> "returned", cause |-> "KeyError", estimate |-> TRUE,
                size |-> None, deflate_size |-> None]}
         ELSE {[ended |-> "scan", cause |-> "", estimate |-> TRUE,
                size |-> None, deflate_size |-> None]}
    ELSE {[ended |-> "returned", cause |-> r.cause, estimate |-> FALSE,
           size |-> r.size, deflate_size |-> r.deflate_size] :
              r \in FileSizes(files[file_name[v]], settings.deflate)}

\* The record of a call that began in the state at hand.
CallRecord(v, o) ==
    [NoCall EXCEPT !.ended = o.ended, !.cause = o.cause,
                   !.estimate = o.estimate,
                   !.clean_path = ~TakesEstimate(file_name[v], is_dirty[v]),
                   !.fs_size = IF ~TakesEstimate(file_name[v], is_dirty[v])
                                  /\ files[file_name[v]].exists
                               THEN NatToBig(files[file_name[v]].size) ELSE None,
                   !.size = o.size, !.deflate_size = o.deflate_size,
                   !.prev = status[v], !.tag = change_count[v],
                   !.end_rev = change_count[v]]

(***************************************************************************)
(* The listener: update_file_size_debounced and _check_call.               *)
(***************************************************************************)
\* self.call_cache[view], call_cache being a defaultdict(int).
Count(cache, v) == IF v \in DOMAIN cache THEN cache[v] ELSE 0

SetCount(cache, v, n) == [w \in DOMAIN cache \cup {v} |-> IF w = v THEN n ELSE cache[w]]

\* A variant of the del that leaves the entry in the dictionary, at zero.
DelCountKeepsZero(cache, v) == SetCount(cache, v, 0)

\* del self.call_cache[view]
DelCount(cache, v) == [w \in DOMAIN cache \ {v} |-> cache[w]]

\* A variant of the test that is off by one: the callback before the last one
\* passes it too.
IsLastCallOffByOne(n) == n <= 1

\* if self.call_cache[view] == 0
IsLastCall(n) == n = 0

\* update_file_size_debounced(view), the handler of the three events:
\* on_post_save_async, on_modified_async and on_activated_async.
update_file_size_debounced ==
    /\ task.pc = "idle"
    /\ events # <<>>
    /\ LET v  == Head(events).view
           id == hist.scheduled + 1
       IN  /\ call_cache' = SetCount(call_cache, v, Count(call_cache, v) + 1)
           /\ timers' = Append(timers, [view |-> v, id |-> id])
           /\ hist' = [hist EXCEPT !.scheduled = id,
                                   !.handled[v] = @ + 1,
                                   !.late[v] = @ \/ hist.fired[v] > 0,
                                   !.last_timer[v] = id,
                                   !.event_rev[v] = Head(events).rev]
    /\ events' = Tail(events)
    /\ UNCHANGED <<viewVars, status, files, settings, task, last, fmt, rg>>

\* The two ways _check_call goes on: a call before the last one only counts
\* down, the last one deletes the entry (and calls update_file_size).
CacheAfterCall(cache, v) ==
    IF IsLastCall(Count(cache, v) - 1) THEN DelCount(cache, v)
    ELSE SetCount(cache, v, Count(cache, v) - 1)

\* _check_call(view), the callback of a timer, with the update_file_size call
\* it makes up to the loop of estimate_file_size.
_check_call ==
    /\ task.pc = "idle"
    /\ timers # <<>>
    /\ LET v   == Head(timers).view
           act == IsLastCall(Count(call_cache, v) - 1)
       IN  /\ call_cache' = CacheAfterCall(call_cache, v)
           /\ timers' = Tail(timers)
           /\ IF ~act
              THEN /\ hist' = [hist EXCEPT !.fired[v] = @ + 1]
                   /\ UNCHANGED <<status, task, last>>
              ELSE /\ hist' = [hist EXCEPT !.fired[v] = @ + 1,
                                           !.updates[v] = @ + 1,
                                           !.update_timer[v] = Head(timers).id,
                                           !.update_handled[v] = hist.handled[v],
                                           !.update_rev[v] = change_count[v]]
                   /\ \E o \in UpdateStart(v) :
                        /\ last' = [last EXCEPT ![v] = CallRecord(v, o)]
                        /\ IF o.ended = "scan"
                           THEN /\ task' = [Idle EXCEPT
                                       !.pc = "ranges", !.view = v,
                                       !.deflate = settings.deflate,
                                       !.tag = change_count[v],
                                       !.line_endings = LINE_ENDINGS_MAP[line_endings[v]],
                                       !.encoding = ENCODING_MAP[encoding[v]]]
                                /\ UNCHANGED status
                           ELSE /\ task' = Idle
                                /\ status' = [status EXCEPT ![v] =
                                       StatusAfter(o.size, o.deflate_size, o.estimate,
                                                   settings.deflate, settings.units)]
    /\ UNCHANGED <<viewVars, files, settings, events, fmt, rg>>

(***************************************************************************)
(* estimate_file_size: the loop over the chunks, one view call a step (the *)
(* editor's thread may change the view between two calls of the worker).   *)
(* size counts half bytes: a float that is a sum of ints and halves, each  *)
(* exact in a double.                                                      *)
(***************************************************************************)
\* The end of update_file_size for the call the worker thread is in.
Returns(v, ended, cause, size, deflate_size) ==
    /\ task' = Idle
    /\ last' = [last EXCEPT ![v].ended = ended, ![v].cause = cause,
                            ![v].size = size, ![v].deflate_size = deflate_size,
                            ![v].end_rev = change_count[v]]
    /\ status' = [status EXCEPT ![v] =
           IF ended = "returned"
           THEN StatusAfter(size, deflate_size, TRUE, task.deflate, settings.units)
           ELSE StatusKept(status[v])]

\* Lines 118-120: size = 0, data = io.BytesIO(), and ranges(0, view.size(),
\* BLOCK_SIZE) is called.
EstRanges ==
    /\ task.pc = "ranges"
    /\ task' = [task EXCEPT !.pc = "next", !.size = 0, !.data = 0, !.i = 0,
                            !.end = TextLen(buffer[task.view])]
    /\ UNCHANGED <<viewVars, status, files, settings, call_cache, timers, events,
                   last, hist, fmt, rg>>

\* if view.change_count() != tag
HasChanged(count, tag) == count # tag

\* int(size)
IntOfSize(size) == NatToBig(size \div 2)

\* The for statement asks the generator for the next chunk.  With a chunk, line
\* 121 checks the change count: ViewHasChanged is raised, and update_file_size
\* returns at line 172.  Without one, lines 142-143 return the sizes and
\* update_file_size goes on to set the status.
EstNext ==
    /\ task.pc = "next"
    /\ LET v == task.view
       IN  IF RangesMore(task.i, task.end)
           THEN IF HasChanged(change_count[v], task.tag)
                THEN Returns(v, "ViewHasChanged", "", None, None)
                ELSE /\ task' = [task EXCEPT !.pc = "read"]
                     /\ UNCHANGED <<status, last>>
           ELSE \E z \in (IF task.deflate THEN CompressedLens(task.data) ELSE {0}) :
                   Returns(v, "returned", "ok", IntOfSize(task.size),
                           IF task.deflate THEN NatToBig(z) ELSE None)
    /\ UNCHANGED <<viewVars, files, settings, call_cache, timers, events, hist,
                   fmt, rg>>

\* A variant of the sum that drops the odd digit of every chunk, as an integer
\* division would.
HexHalvesTruncated(text) == 2 * (count_hex_digits(text) \div 2)

\* size += count_hex_digits(text) / 2, in half bytes.
HexHalves(text) == count_hex_digits(text)

\* Lines 123-140: the chunk is read and measured.
EstRead ==
    /\ task.pc = "read"
    /\ LET v    == task.view
           r    == RangesYield(task.i, task.end, BLOCK_SIZE)
           text == substr(buffer[v], r[1], r[2])
           enc  == encode(Replace(text, task.line_endings), task.encoding)
           read == [start |-> r[1], end |-> r[2], rev |-> change_count[v]]
       IN  IF task.encoding = SPECIAL_HEXADECIMAL
           THEN /\ task' = [task EXCEPT !.pc = "next",
                                        !.size = @ + HexHalves(text),
                                        !.i = RangesStep(task.i, BLOCK_SIZE)]
                /\ last' = [last EXCEPT ![v].reads = Append(@, read)]
                /\ UNCHANGED status
           ELSE IF enc.raised = "LookupError"
           THEN Returns(v, "LookupError", "", None, None)
           ELSE IF enc.raised = "UnicodeError"
           THEN Returns(v, "returned", "UnicodeError", None, None)
           ELSE /\ task' = [task EXCEPT !.pc = "next",
                                        !.size = @ + 2 * enc.len,
                                        !.data = IF task.deflate THEN @ + enc.len ELSE @,
                                        !.i = RangesStep(task.i, BLOCK_SIZE)]
                /\ last' = [last EXCEPT ![v].reads = Append(@, read)]
                /\ UNCHANGED status
    /\ UNCHANGED <<viewVars, files, settings, call_cache, timers, events, hist,
                   fmt, rg>>

(***************************************************************************)
(* The editor: what happens to a view, each time with the event the        *)
(* listener is told of.                                                    *)
(***************************************************************************)
\* s repeated n times at the end of a text.
AppendRun(t, s, n) ==
    IF t # <<>> /\ t[Len(t)].s = <<s>>
    THEN [t EXCEPT ![Len(t)].n = @ + n]
    ELSE Append(t, [s |-> <<s>>, n |-> n])

Notify(v, rev) == events' = Append(events, [view |-> v, rev |-> rev])

\* The user types or pastes at the end of the buffer, or deletes all of a buffer
\* that is not empty.
Modify(v, s, n) ==
    /\ n = 0 => buffer[v] # <<>>
    /\ buffer' = [buffer EXCEPT ![v] = IF n = 0 THEN <<>> ELSE AppendRun(@, s, n)]
    /\ change_count' = [change_count EXCEPT ![v] = @ + 1]
    /\ is_dirty' = [is_dirty EXCEPT ![v] = TRUE]
    /\ Notify(v, change_count[v] + 1)
    /\ hist' = [hist EXCEPT !.env = @ + 1]
    /\ UNCHANGED <<encoding, line_endings, file_name, status, files, settings,
                   call_cache, timers, task, last, fmt, rg>>

\* The view gets the focus.
Activate(v) ==
    /\ Notify(v, change_count[v])
    /\ hist' = [hist EXCEPT !.env = @ + 1]
    /\ UNCHANGED <<viewVars, status, files, settings, call_cache, timers, task,
                   last, fmt, rg>>

\* The buffer is saved: a file of n bytes is written.
Save(v, n) ==
    /\ file_name' = [file_name EXCEPT ![v] = PathOf(v)]
    /\ is_dirty' = [is_dirty EXCEPT ![v] = FALSE]
    /\ files' = [files EXCEPT ![PathOf(v)] =
                    [exists |-> TRUE, size |-> n, readable |-> TRUE]]
    /\ Notify(v, change_count[v])
    /\ hist' = [hist EXCEPT !.env = @ + 1]
    /\ UNCHANGED <<buffer, change_count, encoding, line_endings, status, settings,
                   call_cache, timers, task, last, fmt, rg>>

\* Another program deletes the file of a view, or takes the right to read it
\* away: no event tells the listener.
Disturb(v, exists) ==
    /\ file_name[v] # None
    /\ files[file_name[v]].exists
    /\ files[file_name[v]].readable
    /\ files' = [files EXCEPT ![file_name[v]].exists = exists,
                              ![file_name[v]].readable = FALSE]
    /\ hist' = [hist EXCEPT !.env = @ + 1]
    /\ UNCHANGED <<viewVars, status, settings, call_cache, timers, events, task,
                   last, fmt, rg>>

(***************************************************************************)
(* The plugin on one view: every kind of view, of settings and of file.    *)
(***************************************************************************)
\* The number of things the editor and other programs do in a run.
MaxEvents == 3

\* What the plugin finds when it is loaded: the encoding and the line endings
\* of the view, the text in it, and the settings.  "UTF-8 with BOM" is an
\* encoding of the editor that ENCODING_MAP does not have.
Scenarios ==
    {[encoding |-> e[1], line_endings |-> e[2], text |-> t,
      settings |-> [deflate |-> e[3], estimate_file_size |-> e[4], units |-> e[5]]] :
        e \in {<<"UTF-8", "Unix", FALSE, TRUE, "binary">>,
               <<"Western (Windows 1252)", "Windows", TRUE, TRUE, "decimal">>,
               <<"Cyrillic (KOI8-R)", "Unix", FALSE, TRUE, "binary">>,
               <<"UTF-8 with BOM", "Unix", FALSE, TRUE, "binary">>,
               <<"DOS (CP 437)", "CR", FALSE, TRUE, "binary">>,
               <<"UTF-8", "Windows", TRUE, FALSE, "binary">>},
        t \in {<<>>, <<[s |-> <<"\n">>, n |-> BLOCK_SIZE + 1]>>}}

InitPlugin(V) ==
    /\ change_count = [v \in V |-> 0]
    /\ file_name = [v \in V |-> None]
    /\ is_dirty = [v \in V |-> FALSE]
    /\ status = [v \in V |-> None]
    /\ files = [p \in {PathOf(v) : v \in V} |->
                   [exists |-> FALSE, size |-> 0, readable |-> FALSE]]
    /\ call_cache = <<>>
    /\ timers = <<>>
    /\ events = <<>>
    /\ task = Idle
    /\ last = [v \in V |-> NoCall]
    /\ hist = NoHist(V)
    /\ fmt = NoFmt
    /\ rg = NoRg

Init ==
    /\ \E sc \in Scenarios :
         /\ buffer = [v \in {"v1"} |-> sc.text]
         /\ encoding = [v \in {"v1"} |-> sc.encoding]
         /\ line_endings = [v \in {"v1"} |-> sc.line_endings]
         /\ settings = sc.settings
    /\ InitPlugin({"v1"})

\* The sizes of the files written: no byte, one byte, and 15 * 1024 bytes.
SavedSizes == {0, 1, 15360}

Worker == update_file_size_debounced \/ _check_call \/ EstRanges \/ EstNext \/ EstRead

Editor ==
    /\ hist.env < MaxEvents
    /\ \E v \in ViewSet :
         \/ \E e \in {<<"z", 1>>, <<"U+00E9", 1>>, <<"", 0>>} : Modify(v, e[1], e[2])
         \/ Activate(v)
         \/ \E n \in SavedSizes : Save(v, n)
         \/ \E x \in BOOLEAN : Disturb(v, x)

Next == Worker \/ Editor

Spec == Init /\ [][Next]_vars

(***************************************************************************)
(* The listener on two views: bursts of events and the timers they set.    *)
(***************************************************************************)
\* The number of events of a run.
MaxBurst == 4

InitDebounce ==
    /\ buffer = [v \in {"v1", "v2"} |-> <<>>]
    /\ encoding = [v \in {"v1", "v2"} |-> "UTF-8"]
    /\ line_endings = [v \in {"v1", "v2"} |-> "Unix"]
    /\ settings = [deflate |-> FALSE, estimate_file_size |-> TRUE, units |-> "binary"]
    /\ InitPlugin({"v1", "v2"})

Triggers ==
    /\ hist.env < MaxBurst
    /\ \E v \in ViewSet : Modify(v, "z", 1) \/ Activate(v)

NextDebounce == Worker \/ Triggers

SpecDebounce == InitDebounce /\ [][NextDebounce]_vars

(***************************************************************************)
(* estimate_file_size on a view nothing changes: one timer is about to     *)
(* fire for a view that has no file.                                       *)
(***************************************************************************)
\* The number of runs of one character in a text.
MaxRuns == 3

\* The runs a text is made of: "z", the hexadecimal digit "f" or newlines, 5,
\* BLOCK_SIZE - 1 or BLOCK_SIZE of them.
RunChoices ==
    {[s |-> <<c>>, n |-> n] : c \in {"z", "f", "\n"},
                              n \in {5, BLOCK_SIZE - 1, BLOCK_SIZE}}

\* The texts of at most k runs, no two runs of one character in a row.
RECURSIVE Texts(_)
Texts(k) ==
    IF k = 0 THEN {<<>>}
    ELSE LET P == Texts(k - 1)
         IN  P \cup {Append(q[1], q[2]) :
                       q \in {x \in P \X RunChoices :
                                /\ Len(x[1]) = k - 1
                                /\ x[1] = <<>> \/ x[1][Len(x[1])].s # x[2].s}}

EstConfigs ==
    {<<"UTF-8", "Unix", FALSE>>, <<"UTF-8", "CR", TRUE>>,
     <<"Western (Windows 1252)", "Windows", FALSE>>,
     <<"UTF-16 LE", "Windows", TRUE>>,
     <<"Hexadecimal", "Unix", FALSE>>, <<"Hexadecimal", "Windows", TRUE>>,
     <<"DOS (CP 437)", "Unix", FALSE>>}

InitEst ==
    /\ \E t \in Texts(MaxRuns), c \in EstConfigs :
         /\ buffer = [v \in {"v1"} |-> t]
         /\ encoding = [v \in {"v1"} |-> c[1]]
         /\ line_endings = [v \in {"v1"} |-> c[2]]
         /\ settings = [deflate |-> c[3], estimate_file_size |-> TRUE,
                        units |-> "binary"]
    /\ change_count = [v \in {"v1"} |-> 0]
    /\ file_name = [v \in {"v1"} |-> None]
    /\ is_dirty = [v \in {"v1"} |-> FALSE]
    /\ status = [v \in {"v1"} |-> None]
    /\ files = [p \in {PathOf("v1")} |->
                   [exists |-> FALSE, size |-> 0, readable |-> FALSE]]
    /\ call_cache = [v \in {"v1"} |-> 1]
    /\ timers = <<[view |-> "v1", id |-> 1]>>
    /\ events = <<>>
    /\ task = Idle
    /\ last = [v \in {"v1"} |-> NoCall]
    /\ hist = [NoHist({"v1"}) EXCEPT !.env = 1, !.scheduled = 1,
                                     !.handled["v1"] = 1, !.last_timer["v1"] = 1]
    /\ fmt = NoFmt
    /\ rg = NoRg

NextEst == _check_call \/ EstRanges \/ EstNext \/ EstRead

SpecEst == InitEst /\ [][NextEst]_vars

(***************************************************************************)
(* file_size_str on its own.                                               *)
(***************************************************************************)
\* The sizes go up to just above Divisor^MaxPow.
MaxPow == 9

\* A few small sizes, and around each power p of a divisor: p - 65, p - 1, p,
\* p + 1 and 15 * p.
FmtSizes ==
    {NatToBig(n) : n \in {0, 1, 2, 999}}
    \cup UNION {LET p == BigPow(d, k)
                IN  {BigSub(p, NatToBig(65)), BigSub(p, <<1>>), p,
                     MulSmall(p, 1, 1), MulSmall(p, 15, 0)} :
                k \in 1..MaxPow, d \in {1000, 1024}}

InitFmt ==
    /\ buffer = <<>> /\ change_count = <<>> /\ encoding = <<>>
    /\ line_endings = <<>> /\ file_name = <<>> /\ is_dirty = <<>>
    /\ status = <<>> /\ files = <<>> /\ settings = <<>> /\ call_cache = <<>>
    /\ timers = <<>> /\ events = <<>> /\ task = Idle /\ last = <<>>
    /\ hist = NoHist({})
    /\ rg = NoRg
    /\ \E n \in FmtSizes \cup {None}, u \in {"binary", "decimal"} :
         fmt = [pc |-> "call", size |-> n, units |-> u, out |-> None]

FormatSize ==
    /\ fmt.pc = "call"
    /\ fmt' = [fmt EXCEPT !.pc = "done", !.out = file_size_str(fmt.size, fmt.units)]
    /\ UNCHANGED <<viewVars, pluginVars, files, settings, rg>>

NextFmt == FormatSize

SpecFmt == InitFmt /\ [][NextFmt]_vars

(***************************************************************************)
(* The generator ranges on its own.                                        *)
(***************************************************************************)
MaxEnd == 7
MaxBs == 3

InitRanges ==
    /\ buffer = <<>> /\ change_count = <<>> /\ encoding = <<>>
    /\ line_endings = <<>> /\ file_name = <<>> /\ is_dirty = <<>>
    /\ status = <<>> /\ files = <<>> /\ settings = <<>> /\ call_cache = <<>>
    /\ timers = <<>> /\ events = <<>> /\ task = Idle /\ last = <<>>
    /\ hist = NoHist({})
    /\ fmt = NoFmt
    /\ \E start \in 0..1, end \in 0..MaxEnd, bs \in 1..MaxBs :
         rg = [pc |-> "run", start |-> start, end |-> end, bs |-> bs, i |-> 0,
               out |-> <<>>]

\* The generator yields its next interval.
RangesNext ==
    /\ rg.pc = "run"
    /\ RangesMore(rg.i, rg.end)
    /\ rg' = [rg EXCEPT !.out = Append(@, RangesYield(rg.i, rg.end, rg.bs)),
                        !.i = RangesStep(rg.i, rg.bs)]
    /\ UNCHANGED <<viewVars, pluginVars, files, settings, fmt>>

\* The generator is exhausted.
RangesReturn ==
    /\ rg.pc = "run"
    /\ ~RangesMore(rg.i, rg.end)
    /\ rg' = [rg EXCEPT !.pc = "done"]
    /\ UNCHANGED <<viewVars, pluginVars, files, settings, fmt>>

NextRanges == RangesNext \/ RangesReturn

\* The interpreter goes on running a generator that is being iterated.
FairSpecRanges == InitRanges /\ [][NextRanges]_vars /\ WF_vars(NextRanges)

(***************************************************************************)
(* The claims.                                                             *)
(***************************************************************************)
IsPrefix(a, b) == Len(a) <= Len(b) /\ SubSeq(b, 1, Len(a)) = a

\* The callbacks of a view that timers still holds.
PendingTimers(v) == Cardinality({i \in 1..Len(timers) : timers[i].view = v})

\* C1: when the events of a view are all handled before the first callback of
\* the view fires, update_file_size does not run while a callback of the view
\* is still to fire, and once they all fired it has run exactly once: in the
\* callback scheduled last, after every event, on a buffer at least as new as
\* the one the last event told of.
C1_OneUpdatePerBurst ==
    \A v \in ViewSet :
        (hist.handled[v] >= 1 /\ ~hist.late[v]) =>
            /\ hist.fired[v] < hist.handled[v] => hist.updates[v] = 0
            /\ hist.fired[v] = hist.handled[v] =>
                 /\ hist.updates[v] = 1
                 /\ hist.update_timer[v] = hist.last_timer[v]
                 /\ hist.update_handled[v] = hist.handled[v]
                 /\ hist.update_rev[v] >= hist.event_rev[v]

\* Three events of a view handled, their three callbacks fired, one update.
C1_Witness ==
    \E v \in ViewSet :
        /\ hist.handled[v] = 3 /\ ~hist.late[v]
        /\ hist.fired[v] = 3 /\ hist.updates[v] = 1

\* C2, as the spec states it: a size that estimate_file_size returns was
\* computed with the change count still at the tag when the scan ended, from
\* chunks that were all read at the tag.
C2_SizeIsOfTaggedRevision ==
    \A v \in ViewSet :
        (last[v].ended = "returned" /\ last[v].estimate /\ last[v].size # None) =>
            /\ last[v].end_rev = last[v].tag
            /\ \A i \in 1..Len(last[v].reads) : last[v].reads[i].rev = last[v].tag

\* C3: a call of update_file_size that sets the status puts "~" first if and
\* only if it called estimate_file_size, which it does if and only if the view
\* has no path or is dirty; for a clean view with a path no chunk is read, and
\* the status starts with the text of the size the file system gave.
C3_TildeIffEstimate ==
    \A v \in ViewSet :
        (last[v].ended = "returned" /\ last[v].size # None) =>
            /\ status[v] # None
            /\ (Head(status[v]) = "~") <=> last[v].estimate
            /\ last[v].estimate <=> ~last[v].clean_path
            /\ last[v].clean_path =>
                 /\ last[v].reads = <<>>
                 /\ last[v].size = last[v].fs_size
                 /\ IsPrefix(file_size_str(last[v].fs_size, settings.units), status[v])

\* The status of a saved view shows the size of its file, without "~".
C3_Witness ==
    \E v \in ViewSet :
        /\ last[v].ended = "returned" /\ last[v].clean_path
        /\ last[v].size # None
        /\ status[v] = file_size_str(NatToBig(15360), settings.units)

\* C4, as the spec states it: after an unknown encoding or line ending,
\* unencodable content, a buffer changed during the scan or a file that is
\* missing or cannot be read, update_file_size has returned and the status is
\* erased.
C4_EveryErrorErases ==
    \A v \in ViewSet :
        (\/ last[v].cause \in {"KeyError", "UnicodeError", "OSError", "OSError-open"}
         \/ last[v].ended = "ViewHasChanged") =>
            /\ last[v].ended = "returned"
            /\ status[v] = None

\* C4, amended: an unknown encoding or line ending, unencodable content and a
\* file whose size cannot be read end with the status erased; a buffer changed
\* during the scan ends the call with the status as the call found it; a file
\* whose size can be read and whose content cannot leaves its size displayed.
C4_ErrorsAbsorbed ==
    \A v \in ViewSet :
        /\ last[v].cause \in {"KeyError", "UnicodeError", "OSError"} =>
             last[v].ended = "returned" /\ status[v] = None
        /\ last[v].ended = "ViewHasChanged" => status[v] = last[v].prev
        /\ last[v].cause = "OSError-open" =>
             /\ last[v].ended = "returned"
             /\ status[v] = file_size_str(last[v].fs_size, settings.units)

\* A scan ended by ViewHasChanged with an earlier size still displayed.
C4_Witness ==
    \E v \in ViewSet : last[v].ended = "ViewHasChanged" /\ status[v] # None

\* The encodings of ENCODING_MAP with one byte for an ASCII character.
OneBytePerAscii == DOMAIN ENCODING_MAP \ {"Hexadecimal", "UTF-16 LE", "UTF-16 BE"}

\* C5, as the spec states it: for an ASCII text, such an encoding and any line
\* ending, estimate_file_size returns the number of characters that are no
\* newline plus the number of newlines times the length of the line ending.
C5_AsciiSizeExact ==
    \A v \in ViewSet :
        (/\ last[v].ended \notin {"none", "scan"}
         /\ encoding[v] \in OneBytePerAscii
         /\ line_endings[v] \in DOMAIN LINE_ENDINGS_MAP
         /\ \A c \in TextChars(buffer[v]) : IsAscii(c)) =>
            /\ last[v].ended = "returned"
            /\ last[v].size =
                 NatToBig(CountChars(buffer[v], TextChars(buffer[v]) \ {"\n"})
                          + CountChars(buffer[v], {"\n"})
                            * Len(LINE_ENDINGS_MAP[line_endings[v]]))

\* C6: in Hexadecimal mode estimate_file_size returns, and the size is half
\* the number of hexadecimal digits of the whole buffer, rounded down.
C6_HexSizeIsHalfTheDigits ==
    \A v \in ViewSet :
        (encoding[v] = "Hexadecimal" /\ last[v].ended \notin {"none", "scan"}) =>
            /\ last[v].ended = "returned"
            /\ last[v].size = NatToBig(count_hex_digits(buffer[v]) \div 2)

\* A buffer read in two chunks or more, two of them with an odd number of
\* hexadecimal digits.
C6_Witness ==
    \E v \in ViewSet :
        /\ encoding[v] = "Hexadecimal" /\ last[v].ended = "returned"
        /\ \E i, j \in 1..Len(last[v].reads) :
             /\ i # j
             /\ \A k \in {i, j} :
                  count_hex_digits(substr(buffer[v], last[v].reads[k].start,
                                          last[v].reads[k].end)) % 2 = 1

\* The text after the first space of a text, and the text before it.
FirstSpace(t) == CHOOSE i \in 1..Len(t) : t[i] = " " /\ \A j \in 1..(i - 1) : t[j] # " "
UnitLabel(t) == SubSeq(t, FirstSpace(t) + 1, Len(t))
NumericPart(t) == SubSeq(t, 1, FirstSpace(t) - 1)

\* The unit the spec gives size n: the k-th of Sizes, k >= 1 the least with
\* n < d^(k+1), and the last one from d^9 on.
RECURSIVE SpecUnit(_, _, _)
SpecUnit(n, d, k) ==
    IF k = Len(Sizes) \/ BigLess(n, BigPow(d, k + 1)) THEN k ELSE SpecUnit(n, d, k + 1)

SpecLabel(n, units) ==
    IF n = <<1>> THEN <<"B", "y", "t", "e">>
    ELSE IF BigLess(n, NatToBig(Divisor(units))) THEN <<"B", "y", "t", "e", "s">>
    ELSE <<Sizes[SpecUnit(n, Divisor(units), 1)]>> \o BinaryMiddle(units) \o <<"B">>

\* C7, as the spec states it: file_size_str of an int is not None, and its
\* unit is the one the size alone decides.
C7_UnitFollowsPowers ==
    (fmt.pc = "done" /\ fmt.size # None) =>
        /\ fmt.out # None
        /\ UnitLabel(fmt.out) = SpecLabel(fmt.size, fmt.units)

IsDigit(c) == \E i \in 1..Len(DigitChars) : DigitChars[i] = c

\* Digits, a point and two digits.
TwoDecimals(t) ==
    /\ Len(t) >= 4
    /\ t[Len(t) - 2] = "."
    /\ \A i \in 1..Len(t) : i # Len(t) - 2 => IsDigit(t[i])

\* C8, as the spec states it: from the divisor on, the number in the result of
\* file_size_str is written with digits, a point and two decimals; 1024 gives
\* "1.00 KiB" and 1000 gives "1.00 KB".
C8_TwoDecimalPlaces ==
    (fmt.pc = "done" /\ fmt.size # None
        /\ ~BigLess(fmt.size, NatToBig(Divisor(fmt.units)))) =>
        /\ TwoDecimals(NumericPart(fmt.out))
        /\ fmt.size = NatToBig(Divisor(fmt.units)) =>
             NumericPart(fmt.out) = <<"1", ".", "0", "0">>

\* C9: call_cache has an entry for a view exactly when a callback of the view
\* is still to fire, and the entry counts these callbacks.
C9_CacheCountsPending ==
    /\ DOMAIN call_cache \subseteq ViewSet
    /\ \A v \in ViewSet :
         /\ v \in DOMAIN call_cache <=> PendingTimers(v) >= 1
         /\ v \in DOMAIN call_cache => call_cache[v] = PendingTimers(v)

\* Two callbacks of one view and one of the other pending after a first one
\* fired.
C9_Witness ==
    /\ DOMAIN call_cache = {"v1", "v2"}
    /\ call_cache["v1"] = 2 /\ call_cache["v2"] = 1
    /\ hist.fired["v1"] = 1

\* The intervals of out split [0, end) into pieces of bs, the last one of at
\* most bs.
IsPartition(out, end, bs) ==
    IF end = 0 THEN out = <<>>
    ELSE /\ Len(out) >= 1
         /\ out[1][1] = 0
         /\ out[Len(out)][2] = end
         /\ \A i \in 1..Len(out) : out[i][1] < out[i][2]
         /\ \A i \in 1..(Len(out) - 1) :
              /\ out[i + 1][1] = out[i][2]
              /\ out[i][2] - out[i][1] = bs
         /\ out[Len(out)][2] - out[Len(out)][1] <= bs

\* C10: ranges(0, end, bs) comes to its end, and what it has yielded by then
\* splits [0, end) into intervals of bs, the last one of at most bs.
C10_RangesPartition ==
    /\ [](rg.pc = "done" /\ rg.start = 0 => IsPartition(rg.out, rg.end, rg.bs))
    /\ <>(rg.pc = "done")

\* Three intervals or more, the last one shorter than bs.
C10_Witness ==
    /\ rg.pc = "done" /\ rg.start = 0 /\ Len(rg.out) >= 3
    /\ rg.out[Len(rg.out)][2] - rg.out[Len(rg.out)][1] < rg.bs

====
